---- MODULE Spec2Model ----
(***************************************************************************)
(* Model of the DNS-over-HTTPS proxy worker (src/workers.js): the provider *)
(* registry, weighted selection of the primary provider, the primary       *)
(* upstream attempt and the sequential failover pass.                      *)
(*                                                                         *)
(* One request is handled at a time; after its response is returned the    *)
(* handler is ready for the next request.  How an upstream behaves for the *)
(* request in hand is fixed when its turn comes (upstream), whether or not *)
(* the worker gets as far as calling it, so "the candidate answers 2xx" is *)
(* a fact about the environment and not about the worker.                  *)
(***************************************************************************)
EXTENDS Integers, Sequences, FiniteSets, TLC

VARIABLES
    pc,               \* position of handleRequest: idle, received, primary, primaryWait,
                      \* failover, failoverWait, done
    request,          \* the inbound Request being handled
    bodyUsed,         \* request.bodyUsed: the inbound body stream has been read
    selectedProvider, \* const selectedProvider (NoProvider until selection)
    upstream,         \* how each provider answers this request: its fetch rejects, or a status
                      \* (NotAsked until the provider's turn comes)
    idx,              \* position of the for-loop over fallbackProviders
    attempts,         \* upstream attempts made so far, in order
    response,         \* the Response returned to the client (NoResponse until then)
    rewrites,         \* how many times the forced response headers were written
    failedProvider,   \* tryFallbackProviders: the failedProvider argument
    fallbackProviders,\* tryFallbackProviders: const fallbackProviders
    registry,         \* the module-level DOH_PROVIDERS array
    inFlight,         \* providers with a fetch of this request that has not settled
    cancelled,        \* the client gave the request up while a fetch of it was in flight
    selProviders,     \* selectProvider harness: the providers argument
    selRandom,        \* selectProvider harness: the value of Math.random() * totalWeight
    selResult,        \* selectProvider harness: the returned provider
    selPc,            \* selectProvider harness: ready / called / returned
    selIdx,           \* selectProvider harness: position of the for-loop
    tally             \* selectProvider harness: how often each provider was returned

vars == <<pc, request, bodyUsed, selectedProvider, upstream, idx, attempts,
          response, rewrites, failedProvider, fallbackProviders, registry, inFlight,
          cancelled, selProviders, selRandom, selResult, selPc, selIdx, tally>>

routerVars == <<pc, request, bodyUsed, selectedProvider, upstream, idx, attempts,
                response, rewrites, failedProvider, fallbackProviders, registry,
                inFlight, cancelled>>

selVars == <<selProviders, selRandom, selResult, selPc, selIdx, tally>>

----------------------------------------------------------------------------
(* Bounds of the model *)

\* longest inbound POST body, in bytes
MaxBodyLen == 1

\* longest provider sequence handed to selectProvider in the selection harness
MaxSelLen == 4

----------------------------------------------------------------------------
(* Program constants *)

DOH_PROVIDERS ==
    << [name |-> "Cloudflare", url |-> "https://cloudflare-dns.com/dns-query",      weight |-> 20],
       [name |-> "Google",     url |-> "https://dns.google/dns-query",              weight |-> 15],
       [name |-> "Quad9",      url |-> "https://dns.quad9.net/dns-query",           weight |-> 15],
       [name |-> "OpenDNS",    url |-> "https://doh.opendns.com/dns-query",         weight |-> 10],
       [name |-> "AdGuard",    url |-> "https://dns.adguard.com/dns-query",         weight |-> 10],
       [name |-> "ControlD",   url |-> "https://freedns.controld.com/p2",           weight |-> 10],
       [name |-> "Mullvad",    url |-> "https://adblock.dns.mullvad.net/dns-query", weight |-> 10],
       [name |-> "NextDNS",    url |-> "https://dns.nextdns.io/dns-query",          weight |-> 10] >>

CACHE_TTL == 300

----------------------------------------------------------------------------
(* Values *)

NoProvider == [name |-> "<none>", url |-> "", weight |-> 0]

\* the value of providers[0] when the array is empty
Undefined == [name |-> "<undefined>", url |-> "", weight |-> 0]

NoResponse ==
    [status |-> 0, body |-> "", headers |-> {}, source |-> "none", provider |-> "<none>",
     received |-> {}]

NoRequest ==
    [method |-> "", path |-> "", query |-> <<>>, headers |-> {}, hasBody |-> FALSE,
     body |-> <<>>]

RECURSIVE SeqsUpTo(_, _)
SeqsUpTo(S, n) ==
    IF n = 0 THEN {<<>>}
    ELSE LET shorter == SeqsUpTo(S, n - 1)
         IN  shorter \cup {Append(s, e) : s \in {t \in shorter : Len(t) = n - 1}, e \in S}

\* the byte values an inbound body is built from
Bytes == {171}

Methods == {"GET", "POST", "OPTIONS", "PUT"}

Paths == {"/", "/dns-encoding", "/dns-query", "/other"}

\* query strings, as the sequence of their name/value pairs
Queries == { <<>>, << <<"dns", "AAABAAAB">> >>, << <<"dns", "">> >>, << <<"name", "example.com">> >> }

\* the headers of an inbound request: a client that sends none of the headers
\* the proxy sets, and one that sends its own values for them and one more header
InboundHeaders ==
    { { <<"X-Request-Id", "7f3a">> },
      { <<"X-Request-Id", "7f3a">>,
        <<"Content-Type", "text/plain">>,
        <<"Accept", "text/html">>,
        <<"User-Agent", "curl/8.0">> } }

\* request.body is null when the request came with no body bytes; a GET or an
\* OPTIONS request carries none
Requests ==
    { [method |-> m, path |-> p, query |-> q, headers |-> h, hasBody |-> b # <<>>,
       body |-> b] :
        m \in Methods, p \in Paths, q \in Queries, h \in InboundHeaders,
        b \in SeqsUpTo(Bytes, MaxBodyLen) }

InboundRequests ==
    { r \in Requests : r.method \in {"GET", "OPTIONS"} => ~r.hasBody }

\* what an upstream does with a call: the fetch rejects, or it resolves with a status
Statuses == {200, 502}

Rejects == [threw |-> TRUE, status |-> 0]

Resolves(status) == [threw |-> FALSE, status |-> status]

Outcomes == {Rejects} \cup {Resolves(s) : s \in Statuses}

\* the upstream's turn has not come in this request
NotAsked == [threw |-> FALSE, status |-> 0]

ProviderNames == { DOH_PROVIDERS[i].name : i \in 1..Len(DOH_PROVIDERS) }

\* headers an upstream may send with its response
UpstreamHeaders ==
    { { <<"Content-Type", "application/dns-message">> },
      { <<"Content-Type", "application/dns-message">>,
        <<"Cache-Control", "no-store">>,
        <<"Access-Control-Allow-Origin", "https://upstream.example">>,
        <<"Access-Control-Allow-Methods", "GET">>,
        <<"Access-Control-Allow-Headers", "X-Upstream">>,
        <<"Expires", "Thu, 01 Jan 1970 00:00:00 GMT">> } }

UpstreamBody(provider) == "dns-message from " \o provider.name

----------------------------------------------------------------------------
(* Helpers of the platform: URL, Headers, Response.ok *)

RECURSIVE SearchTail(_, _)
SearchTail(q, i) ==
    IF i > Len(q) THEN ""
    ELSE (IF i = 1 THEN "?" ELSE "&") \o q[i][1] \o "=" \o q[i][2] \o SearchTail(q, i + 1)

\* url.search: the raw query string, "?" included, empty when there is none
Search(q) == SearchTail(q, 1)

\* a presence check that looks for any parameter instead of the named one
SearchParamsHasAny(q, name) == Len(q) > 0

\* url.searchParams.has(name)
SearchParamsHas(q, name) == \E i \in 1..Len(q) : q[i][1] = name

\* Headers.prototype.set: replaces every value of the header
HeadersSet(h, name, value) == {p \in h : p[1] # name} \cup {<<name, value>>}

\* a success test that takes every status the upstream returns
OkAnyStatus(status) == status >= 200 /\ status <= 599

\* Response.ok
Ok(status) == status >= 200 /\ status <= 299

----------------------------------------------------------------------------
(* selectProvider *)

RECURSIVE SumWeights(_, _)
SumWeights(providers, n) ==
    IF n = 0 THEN 0 ELSE SumWeights(providers, n - 1) + providers[n].weight

\* providers.reduce((sum, provider) => sum + provider.weight, 0)
TotalWeight(providers) == SumWeights(providers, Len(providers))

\* the loop with <= for <: a draw equal to a weight stays with that provider
RECURSIVE SelectLoopInclusive(_, _, _)
SelectLoopInclusive(providers, i, random) ==
    IF i > Len(providers) THEN providers[1]
    ELSE IF random <= providers[i].weight THEN providers[i]
    ELSE SelectLoopInclusive(providers, i + 1, random - providers[i].weight)

\* a loop that stops before the last provider and has no return after it
RECURSIVE SelectLoopNoFallback(_, _, _)
SelectLoopNoFallback(providers, i, random) ==
    IF i >= Len(providers) THEN NoProvider
    ELSE IF random < providers[i].weight THEN providers[i]
    ELSE SelectLoopNoFallback(providers, i + 1, random - providers[i].weight)

\* the for-loop of selectProvider from the i-th provider on, with the running
\* value of random; past the end it falls back to the first provider, which is
\* undefined for an empty array
RECURSIVE SelectLoop(_, _, _)
SelectLoop(providers, i, random) ==
    IF i > Len(providers) THEN (IF Len(providers) = 0 THEN Undefined ELSE providers[1])
    ELSE IF random < providers[i].weight THEN providers[i]
    ELSE SelectLoop(providers, i + 1, random - providers[i].weight)

\* selectProvider(providers), with random the value of Math.random() * totalWeight
selectProvider(providers, random) == SelectLoop(providers, 1, random)

\* the values Math.random() * totalWeight takes, up to its integer part: the
\* weights are integers, so the comparisons depend on the integer part only.
\* With a total weight of 0 the product is 0 (a negative total weight is not
\* among the registries of this model)
Draws(providers) ==
    IF TotalWeight(providers) > 0 THEN 0..(TotalWeight(providers) - 1) ELSE {0}

----------------------------------------------------------------------------
(* Building an upstream attempt and a relayed response *)

\* await request.arrayBuffer(): throws once a body that is present has been
\* read ("Body has already been used"); a null body reads as an empty buffer
\* every time
ArrayBufferThrows(req, used) == req.hasBody /\ used

\* Headers.prototype.append: adds a value and keeps the ones that are there
HeadersAppend(h, name, value) == h \cup {<<name, value>>}

\* upstream request headers built with append for set
UpstreamRequestHeadersAppended(req) ==
    HeadersAppend(
      HeadersAppend(req.headers,
                    IF req.method = "POST" THEN "Content-Type" ELSE "Accept",
                    "application/dns-message"),
      "User-Agent", "DoH-Proxy-Worker/1.0")

\* the headers of the upstream request: a copy of the inbound headers with
\* Content-Type (POST) or Accept (otherwise) and User-Agent set
UpstreamRequestHeaders(req) ==
    HeadersSet(
      HeadersSet(req.headers,
                 IF req.method = "POST" THEN "Content-Type" ELSE "Accept",
                 "application/dns-message"),
      "User-Agent", "DoH-Proxy-Worker/1.0")

\* an upstream Request addressed to the provider's URL without the query string
UpstreamRequestWithoutSearch(req, provider) ==
    [ provider |-> provider.name,
      url      |-> provider.url,
      method   |-> req.method,
      headers  |-> UpstreamRequestHeaders(req),
      hasBody  |-> req.method = "POST",
      body     |-> IF req.method = "POST" THEN req.body ELSE <<>>,
      sent     |-> TRUE ]

\* the upstream Request of one attempt; sent is FALSE when building it threw
\* before fetch was called
UpstreamRequest(req, provider) ==
    [ provider |-> provider.name,
      url      |-> provider.url \o Search(req.query),
      method   |-> req.method,
      headers  |-> UpstreamRequestHeaders(req),
      hasBody  |-> req.method = "POST",
      body     |-> IF req.method = "POST" THEN req.body ELSE <<>>,
      sent     |-> TRUE ]

\* what was built of an attempt whose body read threw: URL and headers are
\* there, the Request is not, and fetch is not called
UnsentRequest(req, provider) ==
    [ provider |-> provider.name,
      url      |-> provider.url \o Search(req.query),
      method   |-> req.method,
      headers  |-> UpstreamRequestHeaders(req),
      hasBody  |-> FALSE,
      body     |-> <<>>,
      sent     |-> FALSE ]

\* the CORS and Cache-Control headers both paths force on a relayed response
ForcedHeaders(h) ==
    HeadersSet(
      HeadersSet(
        HeadersSet(
          HeadersSet(h, "Access-Control-Allow-Origin", "*"),
          "Access-Control-Allow-Methods", "GET, POST, OPTIONS"),
        "Access-Control-Allow-Headers", "Content-Type, Accept"),
      "Cache-Control", "public, max-age=" \o ToString(CACHE_TTL))

\* new Date(Date.now() + CACHE_TTL * 1000), relative to the time of the response
ExpiresValue == "now+" \o ToString(CACHE_TTL * 1000) \o "ms"

\* a primary relay that forces the headers on a 2xx response only
PrimaryResponseForcedWhenOk(provider, status, upstreamHeaders) ==
    [ status   |-> status,
      body     |-> UpstreamBody(provider),
      headers  |-> IF Ok(status)
                   THEN HeadersSet(ForcedHeaders(upstreamHeaders), "Expires", ExpiresValue)
                   ELSE upstreamHeaders,
      source   |-> "primary",
      provider |-> provider.name,
      received |-> upstreamHeaders ]

PrimaryResponse(provider, status, upstreamHeaders) ==
    [ status   |-> status,
      body     |-> UpstreamBody(provider),
      headers  |-> HeadersSet(ForcedHeaders(upstreamHeaders), "Expires", ExpiresValue),
      source   |-> "primary",
      provider |-> provider.name,
      received |-> upstreamHeaders ]

\* a relay that passes the upstream's headers on as they came
FallbackResponseUnforced(provider, status, upstreamHeaders) ==
    [ status   |-> status,
      body     |-> UpstreamBody(provider),
      headers  |-> upstreamHeaders,
      source   |-> "fallback",
      provider |-> provider.name,
      received |-> upstreamHeaders ]

\* a failover relay that sets Expires as the primary relay does
FallbackResponseWithExpires(provider, status, upstreamHeaders) ==
    [ status   |-> status,
      body     |-> UpstreamBody(provider),
      headers  |-> HeadersSet(ForcedHeaders(upstreamHeaders), "Expires", ExpiresValue),
      source   |-> "fallback",
      provider |-> provider.name,
      received |-> upstreamHeaders ]

FallbackResponse(provider, status, upstreamHeaders) ==
    [ status   |-> status,
      body     |-> UpstreamBody(provider),
      headers  |-> ForcedHeaders(upstreamHeaders),
      source   |-> "fallback",
      provider |-> provider.name,
      received |-> upstreamHeaders ]

\* a proxy response that gets the CORS and Cache-Control headers as well
ProxyResponseWithForcedHeaders(status, body, headers) ==
    [ status |-> status, body |-> body, headers |-> ForcedHeaders(headers),
      source |-> "proxy", provider |-> "<none>", received |-> {} ]

ProxyResponse(status, body, headers) ==
    [ status |-> status, body |-> body, headers |-> headers,
      source |-> "proxy", provider |-> "<none>", received |-> {} ]

\* a filter that compares weights instead of names
FilterProvidersByWeight(providers, failed) ==
    SelectSeq(providers, LAMBDA p : p.weight # failed.weight)

\* a filter that drops nothing
FilterProvidersKeepsAll(providers, failed) == providers

\* DOH_PROVIDERS.filter(p => p.name !== failedProvider.name)
FilterProviders(providers, failed) ==
    SelectSeq(providers, LAMBDA p : p.name # failed.name)

\* a removal done in place (splice) leaves the receiver without the provider
ReceiverAfterSplice(providers, failed) ==
    SelectSeq(providers, LAMBDA p : p.name # failed.name)

\* Array.prototype.filter returns a new array: the receiver is as it was
ReceiverAfterFilter(providers, failed) == providers

\* a fetch that is not awaited: it is still in flight when the code goes on
NotAwaited(calls, name) == calls

\* await fetch(upstreamRequest) has settled: that call is no longer in flight
Awaited(calls, name) == calls \ {name}

----------------------------------------------------------------------------
(* handleRequest *)

Init ==
    /\ pc = "idle"
    /\ request = NoRequest
    /\ bodyUsed = FALSE
    /\ selectedProvider = NoProvider
    /\ upstream = [n \in ProviderNames |-> NotAsked]
    /\ idx = 0
    /\ attempts = <<>>
    /\ response = NoResponse
    /\ rewrites = 0
    /\ failedProvider = NoProvider
    /\ fallbackProviders = <<>>
    /\ registry = DOH_PROVIDERS
    /\ inFlight = {}
    /\ cancelled = FALSE
    /\ selProviders = <<>>
    /\ selRandom = 0
    /\ selResult = NoProvider
    /\ selPc = "off"
    /\ selIdx = 0
    /\ tally = <<>>

\* the runtime calls fetch(request, env, ctx) with an inbound request
Arrive ==
    /\ pc = "idle"
    /\ \E req \in InboundRequests : request' = req
    /\ pc' = "received"
    /\ UNCHANGED <<bodyUsed, selectedProvider, upstream, idx, attempts, response,
                   rewrites, failedProvider, fallbackProviders, registry, inFlight,
                   selVars, cancelled>>

Return(resp) ==
    /\ response' = resp
    /\ pc' = "done"

ServeLandingPage ==
    /\ pc = "received"
    /\ request.path = "/"
    /\ Return(ProxyResponse(200, "landing page",
                { <<"Content-Type", "text/html; charset=utf-8">>,
                  <<"Cache-Control", "public, max-age=3600">> }))
    /\ UNCHANGED <<request, bodyUsed, selectedProvider, upstream, idx, attempts,
                   rewrites, failedProvider, fallbackProviders, registry, inFlight,
                   selVars, cancelled>>

ServeDNSEncodingExplanation ==
    /\ pc = "received"
    /\ request.path # "/"
    /\ request.path = "/dns-encoding"
    /\ Return(ProxyResponse(200, "dns encoding explanation",
                { <<"Content-Type", "text/html; charset=utf-8">>,
                  <<"Cache-Control", "public, max-age=3600">> }))
    /\ UNCHANGED <<request, bodyUsed, selectedProvider, upstream, idx, attempts,
                   rewrites, failedProvider, fallbackProviders, registry, inFlight,
                   selVars, cancelled>>

HandleCORS ==
    /\ pc = "received"
    /\ request.path \notin {"/", "/dns-encoding"}
    /\ request.method = "OPTIONS"
    /\ Return(ProxyResponse(204, "",
                { <<"Access-Control-Allow-Origin", "*">>,
                  <<"Access-Control-Allow-Methods", "GET, POST, OPTIONS">>,
                  <<"Access-Control-Allow-Headers", "Content-Type, Accept">>,
                  <<"Access-Control-Max-Age", "86400">> }))
    /\ UNCHANGED <<request, bodyUsed, selectedProvider, upstream, idx, attempts,
                   rewrites, failedProvider, fallbackProviders, registry, inFlight,
                   selVars, cancelled>>

InvalidEndpoint ==
    /\ pc = "received"
    /\ request.path \notin {"/", "/dns-encoding"}
    /\ request.method # "OPTIONS"
    /\ request.path # "/dns-query"
    /\ Return(ProxyResponse(400, "Invalid endpoint. Use /dns-query", {}))
    /\ UNCHANGED <<request, bodyUsed, selectedProvider, upstream, idx, attempts,
                   rewrites, failedProvider, fallbackProviders, registry, inFlight,
                   selVars, cancelled>>

MethodNotAllowed ==
    /\ pc = "received"
    /\ request.path = "/dns-query"
    /\ request.method \notin {"OPTIONS", "GET", "POST"}
    /\ Return(ProxyResponse(405, "Method not allowed. Use GET or POST.", {}))
    /\ UNCHANGED <<request, bodyUsed, selectedProvider, upstream, idx, attempts,
                   rewrites, failedProvider, fallbackProviders, registry, inFlight,
                   selVars, cancelled>>

\* a check that also turns away a dns parameter with an empty value
MissingDnsParameterOrEmpty ==
    /\ pc = "received"
    /\ request.path = "/dns-query"
    /\ request.method = "GET"
    /\ \A i \in 1..Len(request.query) :
         request.query[i][1] = "dns" => request.query[i][2] = ""
    /\ Return(ProxyResponse(400, "Missing DNS query parameter", {}))
    /\ UNCHANGED <<request, bodyUsed, selectedProvider, upstream, idx, attempts,
                   rewrites, failedProvider, fallbackProviders, registry, inFlight,
                   selVars, cancelled>>

MissingDnsParameter ==
    /\ pc = "received"
    /\ request.path = "/dns-query"
    /\ request.method = "GET"
    /\ ~SearchParamsHas(request.query, "dns")
    /\ Return(ProxyResponse(400, "Missing DNS query parameter", {}))
    /\ UNCHANGED <<request, bodyUsed, selectedProvider, upstream, idx, attempts,
                   rewrites, failedProvider, fallbackProviders, registry, inFlight,
                   selVars, cancelled>>

\* a validation without the method check
ValidAnyMethod(req) ==
    /\ req.path = "/dns-query"
    /\ (req.method = "GET" => SearchParamsHas(req.query, "dns"))

\* the request passed validation
Valid(req) ==
    /\ req.path = "/dns-query"
    /\ req.method \in {"GET", "POST"}
    /\ (req.method = "GET" => SearchParamsHas(req.query, "dns"))

\* const selectedProvider = selectProvider(DOH_PROVIDERS)
Dispatch ==
    /\ pc = "received"
    /\ Valid(request)
    /\ \E random \in Draws(registry) :
         selectedProvider' = selectProvider(registry, random)
    /\ pc' = "primary"
    /\ UNCHANGED <<request, bodyUsed, upstream, idx, attempts, response, rewrites,
                   failedProvider, fallbackProviders, registry, inFlight, selVars,
                   cancelled>>

\* the upstream request is built and fetch is called on it
PrimaryFetch ==
    /\ pc = "primary"
    /\ selectedProvider # Undefined
    /\ ~ArrayBufferThrows(request, bodyUsed)
    /\ \E outcome \in Outcomes :
         upstream' = [upstream EXCEPT ![selectedProvider.name] = outcome]
    /\ bodyUsed' = (bodyUsed \/ (request.method = "POST" /\ request.hasBody))
    /\ attempts' = Append(attempts, UpstreamRequest(request, selectedProvider))
    /\ inFlight' = inFlight \cup {selectedProvider.name}
    /\ pc' = "primaryWait"
    /\ UNCHANGED <<request, selectedProvider, idx, response, rewrites, failedProvider,
                   fallbackProviders, registry, selVars, cancelled>>

\* a primary attempt that also gives up on a response without response.ok
PrimaryCaughtOrNotOk(outcome) == outcome.threw \/ ~Ok(outcome.status)

\* the try block of handleRequest ends in the catch clause: only a rejected
\* fetch does that, a resolved one is relayed whatever its status
PrimaryCaught(outcome) == outcome.threw

\* the primary fetch resolves: its response is relayed whatever its status
PrimaryRelay ==
    /\ pc = "primaryWait"
    /\ ~PrimaryCaught(upstream[selectedProvider.name])
    /\ inFlight' = Awaited(inFlight, selectedProvider.name)
    /\ \E uh \in UpstreamHeaders :
         Return(PrimaryResponse(selectedProvider, upstream[selectedProvider.name].status, uh))
    /\ rewrites' = rewrites + 1
    /\ UNCHANGED <<request, bodyUsed, selectedProvider, upstream, idx, attempts,
                   failedProvider, fallbackProviders, registry, selVars, cancelled>>

\* the primary fetch rejects: catch, and call tryFallbackProviders
PrimaryThrows ==
    /\ pc = "primaryWait"
    /\ PrimaryCaught(upstream[selectedProvider.name])
    /\ inFlight' = Awaited(inFlight, selectedProvider.name)
    /\ failedProvider' = selectedProvider
    /\ fallbackProviders' = FilterProviders(registry, selectedProvider)
    /\ registry' = ReceiverAfterFilter(registry, selectedProvider)
    /\ idx' = 1
    /\ pc' = "failover"
    /\ UNCHANGED <<request, bodyUsed, selectedProvider, upstream, attempts, response,
                   rewrites, selVars, cancelled>>

----------------------------------------------------------------------------
(* tryFallbackProviders *)

\* reading the inbound body for this candidate throws: catch, continue
FallbackBodyThrows ==
    /\ pc = "failover"
    /\ idx <= Len(fallbackProviders)
    /\ request.method = "POST"
    /\ ArrayBufferThrows(request, bodyUsed)
    /\ \E outcome \in Outcomes :
         upstream' = [upstream EXCEPT ![fallbackProviders[idx].name] = outcome]
    /\ attempts' = Append(attempts, UnsentRequest(request, fallbackProviders[idx]))
    /\ idx' = idx + 1
    /\ UNCHANGED <<pc, request, bodyUsed, selectedProvider, response,
                   rewrites, failedProvider, fallbackProviders, registry, inFlight,
                   selVars, cancelled>>

\* the upstream request for the candidate is built and fetch is called on it
FallbackFetch ==
    /\ pc = "failover"
    /\ idx <= Len(fallbackProviders)
    /\ ~(request.method = "POST" /\ ArrayBufferThrows(request, bodyUsed))
    /\ \E outcome \in Outcomes :
         upstream' = [upstream EXCEPT ![fallbackProviders[idx].name] = outcome]
    /\ bodyUsed' = (bodyUsed \/ (request.method = "POST" /\ request.hasBody))
    /\ attempts' = Append(attempts, UpstreamRequest(request, fallbackProviders[idx]))
    /\ inFlight' = inFlight \cup {fallbackProviders[idx].name}
    /\ pc' = "failoverWait"
    /\ UNCHANGED <<request, selectedProvider, idx, response, rewrites,
                   failedProvider, fallbackProviders, registry, selVars, cancelled>>

\* the candidate answers with response.ok: its response is relayed
FallbackRelay ==
    /\ pc = "failoverWait"
    /\ ~upstream[fallbackProviders[idx].name].threw
    /\ Ok(upstream[fallbackProviders[idx].name].status)
    /\ inFlight' = Awaited(inFlight, fallbackProviders[idx].name)
    /\ \E uh \in UpstreamHeaders :
         Return(FallbackResponse(fallbackProviders[idx],
                                 upstream[fallbackProviders[idx].name].status, uh))
    /\ rewrites' = rewrites + 1
    /\ UNCHANGED <<request, bodyUsed, selectedProvider, upstream, idx, attempts,
                   failedProvider, fallbackProviders, registry, selVars, cancelled>>

\* a failed candidate that ends the loop (break for continue)
FallbackSkipBreaks ==
    /\ pc = "failoverWait"
    /\ \/ upstream[fallbackProviders[idx].name].threw
       \/ ~Ok(upstream[fallbackProviders[idx].name].status)
    /\ inFlight' = Awaited(inFlight, fallbackProviders[idx].name)
    /\ idx' = Len(fallbackProviders) + 1
    /\ pc' = "failover"
    /\ UNCHANGED <<request, bodyUsed, selectedProvider, upstream, attempts, response,
                   rewrites, failedProvider, fallbackProviders, registry, selVars,
                   cancelled>>

\* the candidate answers without response.ok, or its fetch rejects: next candidate
FallbackSkip ==
    /\ pc = "failoverWait"
    /\ \/ upstream[fallbackProviders[idx].name].threw
       \/ ~Ok(upstream[fallbackProviders[idx].name].status)
    /\ inFlight' = Awaited(inFlight, fallbackProviders[idx].name)
    /\ idx' = idx + 1
    /\ pc' = "failover"
    /\ UNCHANGED <<request, bodyUsed, selectedProvider, upstream, attempts, response,
                   rewrites, failedProvider, fallbackProviders, registry, selVars,
                   cancelled>>

\* a loop end that returns nothing: the handler stays where it is
AllFailedNeverReturns ==
    /\ pc = "failover"
    /\ idx > Len(fallbackProviders)
    /\ UNCHANGED vars

\* the loop is over: all providers failed
AllFailed ==
    /\ pc = "failover"
    /\ idx > Len(fallbackProviders)
    /\ Return(ProxyResponse(503, "All DNS providers are unavailable", {}))
    /\ UNCHANGED <<request, bodyUsed, selectedProvider, upstream, idx, attempts,
                   rewrites, failedProvider, fallbackProviders, registry, inFlight,
                   selVars, cancelled>>

\* the response is handed to the runtime; the handler's locals are gone
Finish ==
    /\ pc = "done"
    /\ pc' = "idle"
    /\ request' = NoRequest
    /\ bodyUsed' = FALSE
    /\ selectedProvider' = NoProvider
    /\ upstream' = [n \in ProviderNames |-> NotAsked]
    /\ idx' = 0
    /\ attempts' = <<>>
    /\ response' = NoResponse
    /\ rewrites' = 0
    /\ failedProvider' = NoProvider
    /\ fallbackProviders' = <<>>
    /\ inFlight' = {}
    /\ cancelled' = FALSE
    /\ UNCHANGED <<registry, selVars>>

Next ==
    \/ Arrive
    \/ ServeLandingPage
    \/ ServeDNSEncodingExplanation
    \/ HandleCORS
    \/ InvalidEndpoint
    \/ MethodNotAllowed
    \/ MissingDnsParameter
    \/ Dispatch
    \/ PrimaryFetch
    \/ PrimaryRelay
    \/ PrimaryThrows
    \/ FallbackBodyThrows
    \/ FallbackFetch
    \/ FallbackRelay
    \/ FallbackSkip
    \/ AllFailed
    \/ Finish

Spec == Init /\ [][Next]_vars

----------------------------------------------------------------------------
(* The worker with a registry that is empty or has a weight that is not     *)
(* positive, from the evaluation of the module on                           *)

\* the shipped providers, as many as there are weights, with these weights
WithWeights(weights) ==
    [i \in 1..Len(weights) |-> [DOH_PROVIDERS[i] EXCEPT !.weight = weights[i]]]

\* an empty registry, a weight of 0 beside a positive one, a single weight of 0,
\* a negative weight between positive ones
MisconfiguredRegistries ==
    { WithWeights(<<>>), WithWeights(<<20, 0>>), WithWeights(<<0>>),
      WithWeights(<<20, -5, 15>>) }

InitMisconfigured ==
    /\ pc = "starting"
    /\ request = NoRequest
    /\ bodyUsed = FALSE
    /\ selectedProvider = NoProvider
    /\ upstream = [n \in ProviderNames |-> NotAsked]
    /\ idx = 0
    /\ attempts = <<>>
    /\ response = NoResponse
    /\ rewrites = 0
    /\ failedProvider = NoProvider
    /\ fallbackProviders = <<>>
    /\ registry \in MisconfiguredRegistries
    /\ inFlight = {}
    /\ cancelled = FALSE
    /\ selProviders = <<>>
    /\ selRandom = 0
    /\ selResult = NoProvider
    /\ selPc = "off"
    /\ selIdx = 0
    /\ tally = <<>>

\* the module is evaluated: the constants are bound and the handler is
\* exported; nothing looks at the registry
Start ==
    /\ pc = "starting"
    /\ pc' = "idle"
    /\ UNCHANGED <<request, bodyUsed, selectedProvider, upstream, idx, attempts,
                   response, rewrites, failedProvider, fallbackProviders, registry,
                   inFlight, selVars, cancelled>>

\* selectedProvider is undefined: reading selectedProvider.url throws inside the
\* try block, before any Request is built; catch, and call tryFallbackProviders
PrimaryBuildThrows ==
    /\ pc = "primary"
    /\ selectedProvider = Undefined
    /\ failedProvider' = selectedProvider
    /\ fallbackProviders' = FilterProviders(registry, selectedProvider)
    /\ registry' = ReceiverAfterFilter(registry, selectedProvider)
    /\ idx' = 1
    /\ pc' = "failover"
    /\ UNCHANGED <<request, bodyUsed, selectedProvider, upstream, attempts, response,
                   rewrites, inFlight, selVars, cancelled>>

NextMisconfigured == Start \/ PrimaryBuildThrows \/ Next

SpecMisconfigured == InitMisconfigured /\ [][NextMisconfigured]_vars

----------------------------------------------------------------------------
(* handleRequest under the scheduling of the runtime: the handler's code    *)
(* runs on whenever it can, and an upstream call that was issued settles    *)

\* the steps the handler takes by itself
HandlerStep ==
    \/ ServeLandingPage
    \/ ServeDNSEncodingExplanation
    \/ HandleCORS
    \/ InvalidEndpoint
    \/ MethodNotAllowed
    \/ MissingDnsParameter
    \/ Dispatch
    \/ PrimaryFetch
    \/ FallbackBodyThrows
    \/ FallbackFetch
    \/ AllFailed

\* await fetch(upstreamRequest) goes on: the call resolved or rejected
UpstreamSettles ==
    \/ PrimaryRelay
    \/ PrimaryThrows
    \/ FallbackRelay
    \/ FallbackSkip

SpecLive == Spec /\ WF_vars(HandlerStep) /\ WF_vars(UpstreamSettles)

----------------------------------------------------------------------------
(* handleRequest with a client that may give the request up while an        *)
(* upstream call of it is in flight                                         *)

\* the client cancels the request.  The handler does not read request.signal,
\* passes no signal to fetch and registers nothing for the abort: no variable
\* of the handler changes
Cancel ==
    /\ pc \in {"primaryWait", "failoverWait"}
    /\ inFlight # {}
    /\ ~cancelled
    /\ cancelled' = TRUE
    /\ UNCHANGED <<pc, request, bodyUsed, selectedProvider, upstream, idx, attempts,
                   response, rewrites, failedProvider, fallbackProviders, registry,
                   inFlight, selVars>>

NextCancel == Next \/ Cancel

SpecCancel == Init /\ [][NextCancel]_vars

----------------------------------------------------------------------------
(* selectProvider on its own: any provider sequence, any draw *)

\* weights of the providers handed to selectProvider
WeightValues == {1, 10, 15, 20}

SelNames == <<"A", "B", "C", "D", "E", "F">>

\* providers named by their position, with the given weights
ProvidersOf(weights) ==
    [i \in 1..Len(weights) |->
        [name |-> SelNames[i], url |-> "https://" \o SelNames[i], weight |-> weights[i]]]

SelInputs ==
    { ProvidersOf(w) : w \in {v \in SeqsUpTo(WeightValues, MaxSelLen) : Len(v) >= 1} }

InitSelect ==
    /\ pc = "off"
    /\ request = NoRequest
    /\ bodyUsed = FALSE
    /\ selectedProvider = NoProvider
    /\ upstream = [n \in ProviderNames |-> NotAsked]
    /\ idx = 0
    /\ attempts = <<>>
    /\ response = NoResponse
    /\ rewrites = 0
    /\ failedProvider = NoProvider
    /\ fallbackProviders = <<>>
    /\ registry = DOH_PROVIDERS
    /\ inFlight = {}
    /\ cancelled = FALSE
    /\ selProviders \in SelInputs
    /\ selRandom \in Draws(selProviders)
    /\ selResult = NoProvider
    /\ selPc = "ready"
    /\ selIdx = 0
    /\ tally = <<>>

SelectCall ==
    /\ selPc = "ready"
    /\ selResult' = selectProvider(selProviders, selRandom)
    /\ selPc' = "returned"
    /\ UNCHANGED <<selProviders, selRandom, selIdx, tally, routerVars>>

NextSelect == SelectCall

SpecSelect == InitSelect /\ [][NextSelect]_vars

----------------------------------------------------------------------------
(* selectProvider over every draw: one call for each integer draw below the *)
(* total weight, counting how often each provider is returned               *)

NamesOf(providers) == { providers[i].name : i \in 1..Len(providers) }

InitTally ==
    /\ pc = "off"
    /\ request = NoRequest
    /\ bodyUsed = FALSE
    /\ selectedProvider = NoProvider
    /\ upstream = [n \in ProviderNames |-> NotAsked]
    /\ idx = 0
    /\ attempts = <<>>
    /\ response = NoResponse
    /\ rewrites = 0
    /\ failedProvider = NoProvider
    /\ fallbackProviders = <<>>
    /\ registry = DOH_PROVIDERS
    /\ inFlight = {}
    /\ cancelled = FALSE
    /\ selProviders \in {DOH_PROVIDERS} \cup SelInputs
    /\ selRandom = 0
    /\ selResult = NoProvider
    /\ selPc = "tallying"
    /\ selIdx = 0
    /\ tally = [n \in NamesOf(selProviders) |-> 0]

\* selectProvider is called with the next draw and its result is counted
TallyDraw ==
    /\ selPc = "tallying"
    /\ selRandom < TotalWeight(selProviders)
    /\ selResult' = selectProvider(selProviders, selRandom)
    /\ tally' = [tally EXCEPT ![selResult'.name] = @ + 1]
    /\ selRandom' = selRandom + 1
    /\ UNCHANGED <<selProviders, selPc, selIdx, routerVars>>

\* every draw below the total weight has been made
TallyDone ==
    /\ selPc = "tallying"
    /\ selRandom = TotalWeight(selProviders)
    /\ selPc' = "tallied"
    /\ UNCHANGED <<selProviders, selRandom, selResult, selIdx, tally, routerVars>>

NextTally == TallyDraw \/ TallyDone

SpecTally == InitTally /\ [][NextTally]_vars

----------------------------------------------------------------------------
(* selectProvider one iteration at a time, also for weights of 0, with      *)
(* selRandom the running value of random                                    *)

LoopWeightValues == WeightValues \cup {0}

LoopInputs ==
    { ProvidersOf(w) : w \in {v \in SeqsUpTo(LoopWeightValues, MaxSelLen) : Len(v) >= 1} }

InitLoop ==
    /\ pc = "off"
    /\ request = NoRequest
    /\ bodyUsed = FALSE
    /\ selectedProvider = NoProvider
    /\ upstream = [n \in ProviderNames |-> NotAsked]
    /\ idx = 0
    /\ attempts = <<>>
    /\ response = NoResponse
    /\ rewrites = 0
    /\ failedProvider = NoProvider
    /\ fallbackProviders = <<>>
    /\ registry = DOH_PROVIDERS
    /\ inFlight = {}
    /\ cancelled = FALSE
    /\ selProviders \in LoopInputs
    /\ selRandom \in Draws(selProviders)
    /\ selResult = NoProvider
    /\ selPc = "loop"
    /\ selIdx = 1
    /\ tally = <<>>

\* if (random < provider.weight) return provider
LoopReturn ==
    /\ selPc = "loop"
    /\ selIdx <= Len(selProviders)
    /\ selRandom < selProviders[selIdx].weight
    /\ selResult' = selProviders[selIdx]
    /\ selPc' = "returned"
    /\ UNCHANGED <<selProviders, selRandom, selIdx, tally, routerVars>>

\* an iteration that goes on without random -= provider.weight
LoopNextKeepsRandom ==
    /\ selPc = "loop"
    /\ selIdx <= Len(selProviders)
    /\ ~(selRandom < selProviders[selIdx].weight)
    /\ selIdx' = selIdx + 1
    /\ UNCHANGED <<selProviders, selRandom, selResult, selPc, tally, routerVars>>

\* random -= provider.weight, and on to the next provider
LoopNext ==
    /\ selPc = "loop"
    /\ selIdx <= Len(selProviders)
    /\ ~(selRandom < selProviders[selIdx].weight)
    /\ selRandom' = selRandom - selProviders[selIdx].weight
    /\ selIdx' = selIdx + 1
    /\ UNCHANGED <<selProviders, selResult, selPc, tally, routerVars>>

\* the loop is over without a return: return providers[0]
LoopFallback ==
    /\ selPc = "loop"
    /\ selIdx > Len(selProviders)
    /\ selResult' = IF Len(selProviders) = 0 THEN Undefined ELSE selProviders[1]
    /\ selPc' = "fellBack"
    /\ UNCHANGED <<selProviders, selRandom, selIdx, tally, routerVars>>

NextLoop == LoopReturn \/ LoopNext \/ LoopFallback

SpecLoop == InitLoop /\ [][NextLoop]_vars

----------------------------------------------------------------------------
(* Vocabulary of the properties *)

\* a response has been returned for a request that was dispatched to an upstream
Dispatched == selectedProvider # NoProvider

Returned == pc = "done"

\* position of the provider of that name in the registry
RegistryIndex(name) == CHOOSE i \in 1..Len(DOH_PROVIDERS) : DOH_PROVIDERS[i].name = name

\* the providers other than the selected one, by registry position
OtherIndexes == { i \in 1..Len(DOH_PROVIDERS) : DOH_PROVIDERS[i].name # selectedProvider.name }

\* the first registry provider other than the selected one
FirstCandidate ==
    DOH_PROVIDERS[CHOOSE i \in OtherIndexes : \A j \in OtherIndexes : i <= j]

\* the upstream calls that went out to the provider of that name
CallsTo(name) == { i \in 1..Len(attempts) : attempts[i].sent /\ attempts[i].provider = name }

PrimaryThrew == Dispatched /\ upstream[selectedProvider.name].threw

AnswersOk(name) == ~upstream[name].threw /\ upstream[name].status \in 200..299

----------------------------------------------------------------------------
(* C1: when the primary attempt of a GET or POST request throws and the    *)
(* first failover candidate answers 2xx, the client receives that          *)
(* candidate's status and body and no later candidate is contacted.        *)
C1_FirstCandidateWins ==
    ( /\ Returned
      /\ PrimaryThrew
      /\ AnswersOk(FirstCandidate.name) )
    => /\ response.source = "fallback"
       /\ response.provider = FirstCandidate.name
       /\ response.status = upstream[FirstCandidate.name].status
       /\ response.body = UpstreamBody(FirstCandidate)
       /\ \A n \in ProviderNames \ {selectedProvider.name, FirstCandidate.name} :
            CallsTo(n) = {}

(* C2: when the primary attempt throws and every failover candidate        *)
(* answers non-2xx or throws, the client receives 503 "All DNS providers   *)
(* are unavailable" and each of the 7 candidates got exactly one call.     *)
C2_ExhaustionCallsEveryCandidateOnce ==
    ( /\ Returned
      /\ PrimaryThrew
      /\ \A i \in OtherIndexes :
           /\ upstream[DOH_PROVIDERS[i].name] \in Outcomes
           /\ ~AnswersOk(DOH_PROVIDERS[i].name) )
    => /\ response.status = 503
       /\ response.body = "All DNS providers are unavailable"
       /\ Cardinality(OtherIndexes) = 7
       /\ \A i \in OtherIndexes : Cardinality(CallsTo(DOH_PROVIDERS[i].name)) = 1

(* C3: every attempt of a POST request, primary or failover, is an         *)
(* upstream request carrying the inbound body bytes unchanged, also after  *)
(* the primary attempt has read the inbound body; every attempt of a GET   *)
(* request carries no body.                                                *)
C3_AttemptsCarryInboundBody ==
    \A i \in 1..Len(attempts) :
        /\ request.method = "POST" =>
             /\ attempts[i].sent
             /\ attempts[i].hasBody
             /\ attempts[i].body = request.body
        /\ request.method = "GET" =>
             /\ attempts[i].sent
             /\ ~attempts[i].hasBody

(* C4, as claimed: every response to a GET or POST on /dns-query is an     *)
(* upstream response with a 2xx status or a proxy response with status     *)
(* 503, 400 or 405.                                                        *)
C4_OnlyOkUpstreamOrCleanError ==
    ( /\ Returned
      /\ request.path = "/dns-query"
      /\ request.method \in {"GET", "POST"} )
    => \/ /\ response.source \in {"primary", "fallback"}
          /\ response.status \in 200..299
       \/ /\ response.source = "proxy"
          /\ response.status \in {503, 400, 405}

(* C4, amended: every response to a GET or POST on /dns-query is the       *)
(* primary upstream's response with whatever status it has, a failover     *)
(* candidate's response with a 2xx status, or a proxy response with status *)
(* 503, 400 or 405; no non-2xx response of a failover candidate is         *)
(* returned.                                                               *)
C4_PrimaryAnyStatusFallbackOnlyOk ==
    ( /\ Returned
      /\ request.path = "/dns-query"
      /\ request.method \in {"GET", "POST"} )
    => \/ /\ response.source = "primary"
          /\ response.status = upstream[selectedProvider.name].status
       \/ /\ response.source = "fallback"
          /\ response.status \in 200..299
       \/ /\ response.source = "proxy"
          /\ response.status \in {503, 400, 405}

\* the primary upstream answered 502 and that response was returned
C4_Witness ==
    /\ Returned
    /\ request.path = "/dns-query"
    /\ request.method \in {"GET", "POST"}
    /\ response.source = "primary"
    /\ response.status = 502

(* C5: a GET on /dns-query whose query string has no dns parameter is      *)
(* answered 400 with no upstream call issued and no provider selected.     *)
C5_MissingDnsIs400BeforeAnyCall ==
    ( /\ Returned
      /\ request.path = "/dns-query"
      /\ request.method = "GET"
      /\ \A i \in 1..Len(request.query) : request.query[i][1] # "dns" )
    => /\ response.status = 400
       /\ response.source = "proxy"
       /\ attempts = <<>>
       /\ selectedProvider = NoProvider

\* a GET with a query string that has parameters, none of them dns, was answered
C5_Witness ==
    /\ Returned
    /\ request.path = "/dns-query"
    /\ request.method = "GET"
    /\ request.query = << <<"name", "example.com">> >>
    /\ response.status = 400

\* the values a response carries for a header
ValuesOf(h, name) == { e[2] : e \in { p \in h : p[1] = name } }

(* C6: every 2xx response returned, from the primary attempt or from a     *)
(* failover candidate, carries the three CORS headers and Cache-Control:   *)
(* public, max-age=300 with exactly these values, whatever the upstream    *)
(* sent for them, and the headers were rewritten exactly once.             *)
C6_SuccessCarriesForcedHeaders ==
    ( /\ Returned
      /\ response.source \in {"primary", "fallback"}
      /\ response.status \in 200..299 )
    => /\ ValuesOf(response.headers, "Access-Control-Allow-Origin") = {"*"}
       /\ ValuesOf(response.headers, "Access-Control-Allow-Methods") = {"GET, POST, OPTIONS"}
       /\ ValuesOf(response.headers, "Access-Control-Allow-Headers") = {"Content-Type, Accept"}
       /\ ValuesOf(response.headers, "Cache-Control") = {"public, max-age=300"}
       /\ rewrites = 1

\* a failover candidate's 200 was relayed, and that upstream had sent its own
\* values for the forced headers (its Expires header is still there)
C6_Witness ==
    /\ Returned
    /\ response.source = "fallback"
    /\ response.status = 200
    /\ <<"Expires", "Thu, 01 Jan 1970 00:00:00 GMT">> \in response.headers
    /\ rewrites = 1

(* C7: a primary attempt that completes with a non-2xx status does not     *)
(* enter failover: no other provider is contacted and the primary's status *)
(* is passed through.  Failover is entered only when the primary attempt   *)
(* throws, and then with the primary provider as the excluded one.         *)
C7_FailoverOnlyWhenPrimaryThrows ==
    /\ ( /\ Returned
         /\ Dispatched
         /\ ~upstream[selectedProvider.name].threw )
       => /\ response.source = "primary"
          /\ response.provider = selectedProvider.name
          /\ response.status = upstream[selectedProvider.name].status
          /\ Len(attempts) = 1
          /\ attempts[1].provider = selectedProvider.name
          /\ failedProvider = NoProvider
          /\ fallbackProviders = <<>>
    /\ (pc = "failover" \/ failedProvider # NoProvider \/ Len(attempts) > 1)
       => /\ upstream[selectedProvider.name].threw
          /\ failedProvider = selectedProvider

\* a POST whose primary upstream answered 502 got that 502 after one call
C7_Witness ==
    /\ Returned
    /\ request.method = "POST"
    /\ response.source = "primary"
    /\ response.status \notin 200..299
    /\ Len(attempts) = 1
    /\ failedProvider = NoProvider

\* the failover loop is at a candidate whose attempt is about to end: its fetch
\* has been called, or the body read of the attempt throws
AtCandidate ==
    \/ pc = "failoverWait"
    \/ /\ pc = "failover"
       /\ idx <= Len(fallbackProviders)
       /\ request.hasBody /\ bodyUsed

\* a step of the loop at a candidate that fails leaves no response and moves to
\* the next candidate
C8_SkipStep ==
    ( /\ AtCandidate
      /\ \/ ~AnswersOk(fallbackProviders[idx].name)
         \/ pc = "failover" )
    => /\ response' = NoResponse
       /\ pc' = "failover"
       /\ idx' = idx + 1

\* a step of the loop that returns a response returns the 2xx response of the
\* candidate it is at
C8_RelayStep ==
    ( /\ AtCandidate
      /\ response' # NoResponse )
    => /\ response'.source = "fallback"
       /\ response'.provider = fallbackProviders[idx].name
       /\ response'.status \in 200..299
       /\ response'.status = upstream[fallbackProviders[idx].name].status

(* C8: during failover a candidate whose status is not 2xx, or whose       *)
(* attempt throws, is skipped: its response is never returned and the next *)
(* candidate in order is attempted; only a 2xx response ends the pass with *)
(* a relayed response.                                                     *)
C8_FailedCandidatesAreSkipped == [][C8_SkipStep /\ C8_RelayStep]_vars

\* two candidates were skipped, one that answered 502 and one whose fetch
\* rejected, and the loop is at the third
C8_Witness ==
    /\ pc = "failover"
    /\ idx = 3
    /\ response = NoResponse
    /\ Len(attempts) = 3
    /\ attempts[2].sent /\ attempts[3].sent
    /\ ~upstream[attempts[2].provider].threw
    /\ upstream[attempts[2].provider].status = 502
    /\ upstream[attempts[3].provider].threw

(* C9: for every provider P of the 8-provider registry, the candidate list *)
(* built when P is excluded has exactly 7 members, does not contain P and  *)
(* lists the others in registry order; candidates are attempted in that    *)
(* order.                                                                  *)
C9_CandidatesAreRegistryMinusFailed ==
    failedProvider # NoProvider =>
        LET k == RegistryIndex(failedProvider.name)
        IN  /\ Len(DOH_PROVIDERS) = 8
            /\ Len(fallbackProviders) = 7
            /\ \A i \in 1..Len(fallbackProviders) :
                 /\ fallbackProviders[i].name # failedProvider.name
                 /\ fallbackProviders[i] = DOH_PROVIDERS[IF i < k THEN i ELSE i + 1]
            /\ \A j \in 2..Len(attempts) :
                 attempts[j].provider = fallbackProviders[j - 1].name

\* OpenDNS, the 4th provider, failed as primary and all 7 others were attempted
C9_Witness ==
    /\ pc = "failover"
    /\ failedProvider.name = "OpenDNS"
    /\ idx = 8
    /\ Len(attempts) = 8
    /\ \A j \in 1..8 : attempts[j].sent

\* sum of the weights of the providers before the i-th
RECURSIVE WeightBefore(_, _)
WeightBefore(providers, i) ==
    IF i <= 1 THEN 0 ELSE WeightBefore(providers, i - 1) + providers[i - 1].weight

InInterval(providers, i, r) ==
    /\ WeightBefore(providers, i) <= r
    /\ r < WeightBefore(providers, i) + providers[i].weight

WeightsOf(providers) == [i \in 1..Len(providers) |-> providers[i].weight]

(* C10: for every non-empty provider sequence with positive weights and    *)
(* every draw r with 0 <= r < total weight, selectProvider returns the     *)
(* provider at the unique index i with                                     *)
(* (weights before i) <= r < (weights up to and including i); with weights *)
(* [20,15,15,10], r=18 gives the 1st, r=25 the 2nd, r=42 the 3rd provider. *)
C10_SelectsProviderOfInterval ==
    selPc = "returned" =>
        /\ \E i \in 1..Len(selProviders) :
             /\ InInterval(selProviders, i, selRandom)
             /\ selResult = selProviders[i]
             /\ \A j \in 1..Len(selProviders) :
                  InInterval(selProviders, j, selRandom) => j = i
        /\ WeightsOf(selProviders) = <<20, 15, 15, 10>> =>
             /\ selRandom = 18 => selResult = selProviders[1]
             /\ selRandom = 25 => selResult = selProviders[2]
             /\ selRandom = 42 => selResult = selProviders[3]

\* selectProvider returned the 3rd provider for weights [20,15,15,10] and r = 42
C10_Witness ==
    /\ selPc = "returned"
    /\ WeightsOf(selProviders) = <<20, 15, 15, 10>>
    /\ selRandom = 42
    /\ selResult.name = "C"

(* C11: for the shipped registry (weights 20,15,15,10,10,10,10,10, total   *)
(* 100), over the integer draws 0..99 the number of draws for which        *)
(* selectProvider returns a provider equals that provider's weight:        *)
(* Cloudflare 20%, Google 15%, Quad9 15%, 10% for each of the other five.  *)
C11_DrawsPerProviderEqualWeight ==
    (selPc = "tallied" /\ selProviders = DOH_PROVIDERS) =>
        /\ selRandom = 100
        /\ WeightsOf(DOH_PROVIDERS) = <<20, 15, 15, 10, 10, 10, 10, 10>>
        /\ \A i \in 1..Len(DOH_PROVIDERS) :
             tally[DOH_PROVIDERS[i].name] = DOH_PROVIDERS[i].weight
        /\ tally["Cloudflare"] = 20
        /\ tally["Google"] = 15
        /\ tally["Quad9"] = 15
        /\ \A n \in {"OpenDNS", "AdGuard", "ControlD", "Mullvad", "NextDNS"} : tally[n] = 10

\* all 100 draws were made on the shipped registry and NextDNS got 10 of them
C11_Witness ==
    /\ selPc = "tallied"
    /\ selProviders = DOH_PROVIDERS
    /\ selRandom = 100
    /\ tally["NextDNS"] = 10

\* handleRequest is past the call of selectProvider for the request in hand
PastSelection ==
    \/ pc \in {"primary", "primaryWait", "failover", "failoverWait"}
    \/ /\ Returned
       /\ \/ response.source \in {"primary", "fallback"}
          \/ response.status = 503

(* C12: for every dispatched request, weighted selection returns exactly   *)
(* one provider and that provider is a member of the configured registry.  *)
C12_SelectionIsOneRegistryMember ==
    PastSelection =>
        Cardinality({ i \in 1..Len(DOH_PROVIDERS) : DOH_PROVIDERS[i] = selectedProvider }) = 1

\* the last provider of the registry was selected and its fetch is in flight
C12_Witness ==
    /\ pc = "primaryWait"
    /\ selectedProvider = DOH_PROVIDERS[8]

(* C13: a request to /dns-query whose method is none of GET, POST and      *)
(* OPTIONS is answered 405, with no provider selected and no upstream call *)
(* issued for it.                                                          *)
C13_OtherMethodIs405WithoutDispatch ==
    ( /\ request.path = "/dns-query"
      /\ request.method \notin {"GET", "POST", "OPTIONS"} )
    => /\ selectedProvider = NoProvider
       /\ attempts = <<>>
       /\ inFlight = {}
       /\ pc \in {"received", "done"}
       /\ Returned => (response.status = 405 /\ response.source = "proxy")

\* a PUT on /dns-query was answered 405
C13_Witness ==
    /\ Returned
    /\ request.path = "/dns-query"
    /\ request.method = "PUT"
    /\ response.status = 405

\* the step calls fetch: an attempt that was sent is added
IssuesCall ==
    /\ Len(attempts') = Len(attempts) + 1
    /\ attempts'[Len(attempts')].sent

\* a call goes out only when no call of the request is in flight, and a call
\* after the first only after the primary attempt has failed
C14_IssueStep ==
    IssuesCall =>
        /\ inFlight = {}
        /\ inFlight' = {attempts'[Len(attempts')].provider}
        /\ Len(attempts) >= 1 => upstream[selectedProvider.name] = Rejects

(* C14: within one request at most one upstream call is in flight at every *)
(* moment: a failover attempt is issued only after the primary attempt has *)
(* failed, each later candidate only after the previous candidate's        *)
(* attempt has resolved or thrown.                                         *)
C14_OneCallInFlight ==
    /\ [](Cardinality(inFlight) <= 1)
    /\ [][C14_IssueStep]_vars

\* the call to the 4th failover candidate is the one call in flight
C14_Witness ==
    /\ pc = "failoverWait"
    /\ idx = 4
    /\ Len(attempts) = 5
    /\ inFlight = {fallbackProviders[4].name}

SentAttempts == { i \in 1..Len(attempts) : attempts[i].sent }

(* C15: within one request every provider is contacted at most once: the   *)
(* provider whose primary attempt failed is not contacted again during     *)
(* failover, no candidate is retried, and the number of upstream calls     *)
(* never exceeds the registry size (8).                                    *)
C15_EachProviderCalledAtMostOnce ==
    /\ \A n \in ProviderNames : Cardinality(CallsTo(n)) <= 1
    /\ \A i \in 2..Len(attempts) : attempts[i].provider # selectedProvider.name
    /\ \A i, j \in 1..Len(attempts) : attempts[i].provider = attempts[j].provider => i = j
    /\ Cardinality(SentAttempts) <= 8
    /\ Len(DOH_PROVIDERS) = 8

\* a GET went through the failed primary and all 7 candidates: 8 calls, then 503
C15_Witness ==
    /\ Returned
    /\ request.method = "GET"
    /\ response.status = 503
    /\ Cardinality(SentAttempts) = 8

(* C17: in every reachable state, after any requests with any outcomes,    *)
(* the provider registry equals its initial value: non-empty, every weight *)
(* > 0, names pairwise distinct, order, URLs and weights unchanged.        *)
C17_RegistryIsNeverChanged ==
    /\ registry = DOH_PROVIDERS
    /\ Len(registry) >= 1
    /\ \A i \in 1..Len(registry) : registry[i].weight > 0
    /\ \A i, j \in 1..Len(registry) : registry[i].name = registry[j].name => i = j

\* a request went through a failed primary and a failover relay, and the
\* registry is what it was
C17_Witness ==
    /\ Returned
    /\ failedProvider # NoProvider
    /\ fallbackProviders # <<>>
    /\ response.source = "fallback"
    /\ registry = DOH_PROVIDERS

NamesIn(h) == { p[1] : p \in h }

\* the headers the proxy sets on the upstream request of the request in hand
SetOnUpstream ==
    {"User-Agent"} \cup (IF request.method = "POST" THEN {"Content-Type"} ELSE {"Accept"})

(* C18: every upstream attempt, primary or failover, has the inbound       *)
(* method and a copy of the inbound headers in which User-Agent is the     *)
(* proxy's identifier and, for POST, Content-Type, or, for GET, Accept is  *)
(* application/dns-message whatever the inbound value; all other inbound   *)
(* headers are unchanged.                                                  *)
C18_UpstreamHeadersAreInboundPlusForced ==
    \A i \in 1..Len(attempts) :
        /\ attempts[i].method = request.method
        /\ ValuesOf(attempts[i].headers, "User-Agent") = {"DoH-Proxy-Worker/1.0"}
        /\ request.method = "POST" =>
             ValuesOf(attempts[i].headers, "Content-Type") = {"application/dns-message"}
        /\ request.method = "GET" =>
             ValuesOf(attempts[i].headers, "Accept") = {"application/dns-message"}
        /\ \A n \in (NamesIn(attempts[i].headers) \cup NamesIn(request.headers)) \ SetOnUpstream :
             ValuesOf(attempts[i].headers, n) = ValuesOf(request.headers, n)

\* a POST that came with Content-Type: text/plain and its own User-Agent was
\* sent to a failover candidate, its Accept and X-Request-Id headers kept
C18_Witness ==
    /\ request.method = "POST"
    /\ <<"Content-Type", "text/plain">> \in request.headers
    /\ <<"User-Agent", "curl/8.0">> \in request.headers
    /\ Len(attempts) >= 2
    /\ attempts[2].sent
    /\ <<"Accept", "text/html">> \in attempts[2].headers
    /\ <<"X-Request-Id", "7f3a">> \in attempts[2].headers

(* C19: for every upstream attempt of a request, primary or failover, the  *)
(* target URL is the attempted provider's URL followed by the inbound      *)
(* query string, so every provider contacted for one request receives the  *)
(* same, unmodified query string.                                          *)
C19_TargetUrlIsProviderUrlPlusQuery ==
    \A i \in 1..Len(attempts) :
        LET provider == DOH_PROVIDERS[RegistryIndex(attempts[i].provider)]
        IN  /\ attempts[i].url = provider.url \o Search(request.query)
            /\ request.query = <<>> => attempts[i].url = provider.url
            /\ request.query = << <<"dns", "AAABAAAB">> >> =>
                 attempts[i].url = provider.url \o "?dns=AAABAAAB"
            /\ request.query = << <<"dns", "">> >> =>
                 attempts[i].url = provider.url \o "?dns="
            /\ request.query = << <<"name", "example.com">> >> =>
                 attempts[i].url = provider.url \o "?name=example.com"

\* Cloudflare failed as primary and Google, the first candidate, was sent the
\* same query string
C19_Witness ==
    /\ Len(attempts) >= 2
    /\ attempts[1].sent /\ attempts[2].sent
    /\ attempts[1].url = "https://cloudflare-dns.com/dns-query?dns=AAABAAAB"
    /\ attempts[2].url = "https://dns.google/dns-query?dns=AAABAAAB"

(* C20: the proxy sets an Expires header (now + 300 s) on a response       *)
(* relayed from the primary attempt and on no other response: a response   *)
(* relayed from a failover candidate keeps whatever Expires header the     *)
(* upstream sent (or none).                                                *)
C20_ExpiresOnlyOnPrimaryRelay ==
    Returned =>
        /\ response.source = "primary" =>
             ValuesOf(response.headers, "Expires") = {"now+300000ms"}
        /\ response.source = "fallback" =>
             ValuesOf(response.headers, "Expires") = ValuesOf(response.received, "Expires")
        /\ response.source = "proxy" =>
             ValuesOf(response.headers, "Expires") = {}

\* a failover candidate that sent no Expires header was relayed without one
C20_Witness ==
    /\ Returned
    /\ response.source = "fallback"
    /\ ValuesOf(response.received, "Expires") = {}
    /\ ValuesOf(response.headers, "Expires") = {}
    /\ ValuesOf(response.headers, "Cache-Control") = {"public, max-age=300"}

\* the terminal outcomes of a request
TerminalOutcome(resp) ==
    \/ resp.source \in {"primary", "fallback"}
    \/ resp.source = "proxy" /\ resp.status \in {503, 400, 405, 204}
    \/ resp.source = "proxy" /\ resp.status = 200
                             /\ resp.body \in {"landing page", "dns encoding explanation"}

\* a step gives the request its outcome at most once, and after the outcome no
\* step issues an upstream call
C21_OutcomeStep ==
    /\ response # NoResponse =>
          /\ response' \in {response, NoResponse}
          /\ ~IssuesCall
          /\ Len(attempts') <= Len(attempts)
    /\ (response = NoResponse /\ response' # NoResponse) =>
          /\ TerminalOutcome(response')
          /\ pc' = "done"

(* C21: provided every issued upstream call eventually resolves or throws, *)
(* every request eventually reaches exactly one terminal outcome (a        *)
(* relayed upstream response, 503, 400, 405, 204 or a static page) and,    *)
(* once the response is returned, no further upstream call is issued for   *)
(* that request.                                                           *)
C21_EveryRequestEndsInOneOutcome ==
    /\ (pc = "received") ~> Returned
    /\ [](Returned <=> response # NoResponse)
    /\ [](Returned => inFlight = {})
    /\ [][C21_OutcomeStep]_vars

\* a POST with a body went through the failed primary and the seven candidates,
\* none of which was called, and ended in 503
C21_Witness ==
    /\ Returned
    /\ request.method = "POST"
    /\ response.status = 503
    /\ Len(attempts) = 8
    /\ inFlight = {}

\* after the client cancelled, a step neither settles the call that was in
\* flight into a relayed response nor builds an attempt for another candidate
C22_StepAfterCancel ==
    cancelled =>
        /\ ~IssuesCall
        /\ Len(attempts') <= Len(attempts)
        /\ response' # response => response'.source \notin {"primary", "fallback"}

(* C22: when the client cancels a request while an upstream call for it is *)
(* in flight, that upstream call is aborted and no remaining failover      *)
(* candidate is contacted for the request.                                 *)
C22_CancelAbortsCallAndSkipsCandidates == [][C22_StepAfterCancel]_vars

\* the endpoints of the documentation
Documented(req) ==
    \/ req.method = "GET" /\ req.path \in {"/", "/dns-encoding"}
    \/ req.method \in {"GET", "POST", "OPTIONS"} /\ req.path = "/dns-query"

(* C23: any request that is not one of the documented endpoints (GET /,    *)
(* GET /dns-encoding, and GET, POST or OPTIONS on /dns-query) is answered  *)
(* with status 400 or 405, for every method including OPTIONS and for      *)
(* every path, and no upstream call is issued for it.                      *)
C23_UndocumentedIs400Or405 ==
    ( /\ Returned
      /\ ~Documented(request) )
    => /\ response.status \in {400, 405}
       /\ attempts = <<>>
       /\ selectedProvider = NoProvider

HasDns(req) == \E i \in 1..Len(req.query) : req.query[i][1] = "dns"

(* C24: the only input validation before dispatch is presence of the dns   *)
(* parameter on GET: a GET to /dns-query whose dns parameter is present    *)
(* with any value, including the empty string, is dispatched to an         *)
(* upstream, and a POST to /dns-query is dispatched whether or not a dns   *)
(* parameter or a body is present.                                         *)
C24_OnlyDnsPresenceIsValidated ==
    ( /\ Returned
      /\ request.path = "/dns-query"
      /\ request.method \in {"GET", "POST"} )
    => /\ (request.method = "POST" \/ HasDns(request)) =>
            /\ Dispatched
            /\ Len(attempts) >= 1
            /\ attempts[1].sent
            /\ attempts[1].provider = selectedProvider.name
            /\ response.status # 400
       /\ ~Dispatched =>
            /\ request.method = "GET"
            /\ ~HasDns(request)
            /\ response.status = 400

\* a GET with an empty dns parameter was sent to the selected upstream and its
\* answer relayed
C24_Witness ==
    /\ Returned
    /\ request.method = "GET"
    /\ request.query = << <<"dns", "">> >>
    /\ Len(attempts) = 1
    /\ attempts[1].sent
    /\ response.source = "primary"

(* C25: every response produced by the failover pass has either a 2xx      *)
(* status (relayed from a candidate) or status 503 (generated by the       *)
(* proxy); consequently a non-2xx upstream status can reach the client     *)
(* only from the provider chosen as primary.                               *)
C25_FailoverGives2xxOr503 ==
    Returned =>
        /\ failedProvider # NoProvider =>
             \/ /\ response.source = "fallback"
                /\ response.status \in 200..299
                /\ response.provider # selectedProvider.name
             \/ /\ response.source = "proxy"
                /\ response.status = 503
        /\ ( /\ response.source \in {"primary", "fallback"}
             /\ response.status \notin 200..299 )
           => /\ response.source = "primary"
              /\ response.provider = selectedProvider.name
              /\ failedProvider = NoProvider

\* the failover pass skipped a candidate that answered 502 and relayed the 200
\* of a later one
C25_Witness ==
    /\ Returned
    /\ failedProvider # NoProvider
    /\ response.source = "fallback"
    /\ response.status = 200
    /\ \E i \in 2..Len(attempts) :
         /\ attempts[i].sent
         /\ upstream[attempts[i].provider] = Resolves(502)

\* the header names the relays force
ForcedNames ==
    { "Access-Control-Allow-Origin", "Access-Control-Allow-Methods",
      "Access-Control-Allow-Headers", "Cache-Control", "Expires" }

(* C26: a response relayed from the primary attempt carries the forced     *)
(* headers whatever its status: a non-2xx primary upstream response is     *)
(* returned with Cache-Control: public, max-age=300, an Expires header     *)
(* 300 s ahead and the three CORS headers, exactly as a 2xx response is.   *)
C26_PrimaryRelayForcesHeadersAtAnyStatus ==
    ( /\ Returned
      /\ response.source = "primary" )
    => /\ response.status = upstream[selectedProvider.name].status
       /\ ValuesOf(response.headers, "Access-Control-Allow-Origin") = {"*"}
       /\ ValuesOf(response.headers, "Access-Control-Allow-Methods") = {"GET, POST, OPTIONS"}
       /\ ValuesOf(response.headers, "Access-Control-Allow-Headers") = {"Content-Type, Accept"}
       /\ ValuesOf(response.headers, "Cache-Control") = {"public, max-age=300"}
       /\ ValuesOf(response.headers, "Expires") = {"now+300000ms"}
       /\ CACHE_TTL = 300
       /\ \A n \in (NamesIn(response.headers) \cup NamesIn(response.received)) \ ForcedNames :
            ValuesOf(response.headers, n) = ValuesOf(response.received, n)
       /\ rewrites = 1

\* the primary upstream answered 502 with its own Cache-Control and CORS headers
\* and the 502 was returned with the forced ones
C26_Witness ==
    /\ Returned
    /\ response.source = "primary"
    /\ response.status = 502
    /\ <<"Cache-Control", "no-store">> \in response.received
    /\ <<"Cache-Control", "public, max-age=300">> \in response.headers
    /\ <<"Expires", "now+300000ms">> \in response.headers

\* the forced headers, with the values the relays give them
ForcedPairs ==
    { <<"Access-Control-Allow-Origin", "*">>,
      <<"Access-Control-Allow-Methods", "GET, POST, OPTIONS">>,
      <<"Access-Control-Allow-Headers", "Content-Type, Accept">>,
      <<"Cache-Control", "public, max-age=300">>,
      <<"Expires", "now+300000ms">> }

Misconfigured(providers) ==
    \/ Len(providers) = 0
    \/ \E i \in 1..Len(providers) : providers[i].weight <= 0

(* C28: with an empty provider registry or a registry containing a         *)
(* provider of non-positive weight, the process refuses to start: no       *)
(* request is ever accepted, no provider is selected and no upstream call  *)
(* is issued under such a configuration.                                   *)
C28_MisconfiguredRefusesToStart ==
    Misconfigured(registry) =>
        /\ pc = "starting"
        /\ request = NoRequest
        /\ selectedProvider = NoProvider
        /\ attempts = <<>>

AllPositive(providers) == \A i \in 1..Len(providers) : providers[i].weight > 0

\* sum of the weights of the providers from the i-th on
WeightFrom(providers, i) == TotalWeight(providers) - WeightBefore(providers, i)

(* C29: in selectProvider, for every non-empty sequence of providers with  *)
(* positive integer weights and every draw r with 0 <= r < total weight,   *)
(* the loop returns from inside its body: the running remainder is         *)
(* non-negative at every iteration and the trailing return providers[0]    *)
(* fallback is never reached.                                              *)
C29_LoopReturnsInsideItsBody ==
    ( /\ selPc \in {"loop", "returned", "fellBack"}
      /\ Len(selProviders) >= 1
      /\ AllPositive(selProviders) )
    => /\ selRandom >= 0
       /\ selPc # "fellBack"
       /\ selIdx \in 1..Len(selProviders)
       /\ selRandom < WeightFrom(selProviders, selIdx)
       /\ selPc = "returned" =>
            /\ selResult = selProviders[selIdx]
            /\ selRandom < selProviders[selIdx].weight

\* with weights [20,15,15,10] the loop went through three providers and
\* returned at the last one with a remainder of 9, the draw having been 59
C29_Witness ==
    /\ selPc = "returned"
    /\ WeightsOf(selProviders) = <<20, 15, 15, 10>>
    /\ selIdx = 4
    /\ selRandom = 9
    /\ selResult = selProviders[4]

====
